---- MODULE Spec2Model ----
(***************************************************************************)
(* Session manager of spawn (src-tauri): the PtyManager registry guarded   *)
(* by one mutex, the per-session output pump started by spawn_agent /      *)
(* spawn_shell, the tauri commands of sessions.rs that drive them, the     *)
(* tokio broadcast channel created in lib.rs and the per-client relay loop *)
(* of ws_server.rs.                                                        *)
(***************************************************************************)
EXTENDS Integers, Sequences, FiniteSets, TLC

(* ------------------------------ bounds -------------------------------- *)
\* Spec: child processes spawned over one run, chunks they write in all
MaxProcs == 2
MaxChunks == 2
\* SpecIo: child processes spawned over one run, chunks they write in all
IoProcs == 2
IoChunks == 1
\* SpecRelay: child processes spawned over one run, chunks they write in all
RelayProcs == 1
RelayChunks == 2
\* messages the broadcast channel retains (lib.rs creates it with 1024)
HubCap == 1
\* SpecLag: child processes spawned over one run, chunks they write in all,
\* messages the broadcast channel retains
LagProcs == 1
LagChunks == 3
LagCap == 2
\* SpecFan: child processes spawned over one run, chunks they write in all,
\* messages the broadcast channel retains
FanProcs == 2
FanChunks == 2
FanCap == 1
\* SpecPty: child processes spawned over one run, chunks they write in all,
\* write_to_agent calls made in all, bytes the pseudo-terminal's input queue
\* holds before a write to it blocks
PtyProcs == 1
PtyChunks == 2
PtyWrites == 2
PtyCap == 1
\* SpecApi: child processes spawned over one run, chunks they write in all
ApiProcs == 2
ApiChunks == 1

\* the port lib.rs passes to ws_server::start
RelayPort == 9731
\* the id of the built-in default agent config: the row the schema seeds the
\* table with, is_default = 1 (the migrations are not part of the sources read)
BuiltinId == "builtin"

Threads    == {"t1", "t2"}
ShellIds   == {"s1"}
AgentIds   == {"a1"}
SessionIds == ShellIds \cup AgentIds
Clients    == {"c1", "c2"}
KeyIds     == {"k1", "k2", "k3"}
ConfigIds  == {BuiltinId} \cup KeyIds
Ports      == {0, 1, RelayPort, 65535}
Max(a, b)  == IF a > b THEN a ELSE b
Pids       == 1..Max(Max(MaxProcs, IoProcs), Max(Max(RelayProcs, LagProcs), Max(ApiProcs, Max(FanProcs, PtyProcs))))

VARIABLES
    sessions,   \* PtyManager.sessions: id -> PtySession (or NoSession)
    lock,       \* holder of the sessions mutex: "free" or a thread
    proc,       \* pid -> child process and the pump thread reading it
    nprocs,     \* children spawned so far
    notified,   \* pid -> "session-exited" events emitted on finding that entry
    pc,         \* thread -> position inside the command it runs
    arg,        \* thread -> session_id of the command it runs
    tp,         \* thread -> child held in a local (spawned, or removed by kill)
    ret,        \* what the step just taken returned to its caller, if it returned
    db,         \* agent_sessions table: id -> row (or NoRow)
    uuids,      \* ids Uuid::new_v4 has handed out
    hub,        \* every message the broadcast channel accepted, oldest first
    cpc,        \* client -> position of its handle_socket loop
    cursor,     \* client -> messages of hub its receiver is past
    subAt,      \* client -> length of hub when its receiver subscribed
    lagged,     \* client -> has its receiver returned Lagged
    recvd,      \* client -> frames delivered to its socket
    listener,   \* the relay's listening socket: not bound yet, bound, or failed
    configs     \* agent_configs table: id -> row (or NoConfig)

vars == <<sessions, lock, proc, nprocs, notified, pc, arg, tp, ret, db, uuids,
          hub, cpc, cursor, subAt, lagged, recvd, listener, configs>>

regVars    == <<sessions, lock>>
procVars   == <<proc, nprocs, notified>>
threadVars == <<pc, arg, tp>>
dbVars     == <<db, uuids, configs>>
relayVars  == <<hub, cpc, cursor, subAt, lagged, recvd, listener>>

(* ------------------------------ values -------------------------------- *)
NoId      == "-"
NoSession == [status |-> "Absent", scrollback |-> <<>>, pid |-> 0]
NoRow     == [status |-> "absent", scrollback |-> <<>>, hasScrollback |-> FALSE]
\* input: the bytes written to the child's pseudo-terminal, in the order the
\* writer took them; consumed: how many of them the child has read; blocked:
\* the child waits in a write for its output to be read
NoProc    == [sid |-> NoId, state |-> "unborn", killed |-> FALSE, nread |-> 0,
              pump |-> "none", input |-> <<>>, consumed |-> 0, blocked |-> FALSE]

\* a socket address, and the listening socket before ws_server::start has bound it
SocketAddr(ip, port) == [ip |-> ip, port |-> port]
NotListening == [state |-> "unbound", addr |-> SocketAddr(<<0, 0, 0, 0>>, 0)]

\* a row of agent_configs; NoConfig for an id the table does not hold
ConfigRow(is_default) == [present |-> TRUE, is_default |-> is_default]
NoConfig == [present |-> FALSE, is_default |-> FALSE]

Result(tag, data) == [tag |-> tag, data |-> data]
Ok       == Result("ok", <<>>)
Err      == Result("err", <<>>)
NotFound == Result("notfound", <<>>)

\* ret when the step just taken returned r from command op(id) to thread t
Returned(t, op, id, r) ==
    [thread |-> t, op |-> op, id |-> id, tag |-> r.tag, data |-> r.data]
NoReturn == Returned("-", "-", "-", Result("none", <<>>))

\* the n-th chunk child p writes: two bytes, distinct for every (p, n)
Chunk(p, n) == <<p, n>>

RECURSIVE ChunksUpTo(_, _)
ChunksUpTo(p, n) == IF n = 0 THEN <<>> ELSE ChunksUpTo(p, n - 1) \o Chunk(p, n)

Registered(id) == sessions[id].pid # 0

\* PtySession built by spawn_agent / spawn_shell
NewSession(p) == [status |-> "Running", scrollback |-> <<>>, pid |-> p]

\* a get_session that reports the entry without cloning its scrollback
get_session_no_clone(id) ==
    IF Registered(id) THEN Result("some", <<>>) ELSE Result("none", <<>>)

\* PtyManager::get_session
get_session(id) ==
    IF Registered(id)
    THEN Result("some", sessions[id].scrollback)
    ELSE Result("none", <<>>)

Return(t, op, id, r) ==
    /\ pc'  = [pc  EXCEPT ![t] = "idle"]
    /\ arg' = [arg EXCEPT ![t] = NoId]
    /\ tp'  = [tp  EXCEPT ![t] = 0]
    /\ ret' = Returned(t, op, id, r)

Goto(t, where, id, p) ==
    /\ pc'  = [pc  EXCEPT ![t] = where]
    /\ arg' = [arg EXCEPT ![t] = id]
    /\ tp'  = [tp  EXCEPT ![t] = p]
    /\ ret' = NoReturn

(* ------------------------------- Init --------------------------------- *)
Init ==
    /\ sessions = [id \in SessionIds |-> NoSession]
    /\ lock = "free"
    /\ proc = [p \in Pids |-> NoProc]
    /\ nprocs = 0
    /\ notified = [p \in Pids |-> 0]
    /\ pc  = [t \in Threads |-> "idle"]
    /\ arg = [t \in Threads |-> NoId]
    /\ tp  = [t \in Threads |-> 0]
    /\ ret = NoReturn
    /\ db = [id \in SessionIds |-> NoRow]
    /\ uuids = {}
    /\ hub = <<>>
    /\ cpc = [c \in Clients |-> "init"]
    /\ cursor = [c \in Clients |-> 0]
    /\ subAt = [c \in Clients |-> 0]
    /\ lagged = [c \in Clients |-> FALSE]
    /\ recvd = [c \in Clients |-> <<>>]
    /\ listener = NotListening
    /\ configs = [k \in ConfigIds |-> IF k = BuiltinId THEN ConfigRow(TRUE) ELSE NoConfig]

\* calls that have not opened their pseudo-terminal yet
PendingSpawns == Cardinality({t \in Threads : pc[t] \in {"shell_open", "agent_open"}})

\* a further spawn stays within maxProcs children
CanSpawn(maxProcs) == nprocs + PendingSpawns < maxProcs

(* ------------------- sessions.rs: spawn_shell command ----------------- *)
\* spawn_shell without its guard
ShellNeverPresent(id) == FALSE

\* a guard that only counts a session whose shell is still running
ShellPresentRunning(id) == get_session(id).tag = "some" /\ sessions[id].status = "Running"

\* the guard of sessions::spawn_shell: is a session registered under id ?
ShellPresent(id) == get_session(id).tag = "some"

\* sessions::spawn_shell up to the call of PtyManager::spawn_shell
SpawnShellCheck(t, id, maxProcs) ==
    /\ pc[t] = "idle"
    /\ lock = "free"
    /\ IF ShellPresent(id)
       THEN Return(t, "spawn_shell", id, Ok)
       ELSE CanSpawn(maxProcs) /\ Goto(t, "shell_open", id, 0)
    /\ UNCHANGED <<regVars, procVars, dbVars, relayVars>>

(* ------------------- sessions.rs: spawn_agent command ----------------- *)
\* create_session_db: a fresh uuid and its row, status defaulting to stopped
SpawnAgentCreate(t, maxProcs) ==
    /\ pc[t] = "idle"
    /\ CanSpawn(maxProcs)
    /\ \E id \in AgentIds \ uuids :
        /\ uuids' = uuids \cup {id}
        /\ db' = [db EXCEPT ![id] = [NoRow EXCEPT !.status = "stopped"]]
        /\ Goto(t, "agent_open", id, 0)
    /\ UNCHANGED <<regVars, procVars, configs, relayVars>>

\* update_session_status_db(id, "running") after PtyManager::spawn_agent
AgentStatus(t) ==
    /\ pc[t] = "agent_status"
    /\ db' = [db EXCEPT ![arg[t]] =
                 IF @.status = "absent" THEN @ ELSE [@ EXCEPT !.status = "running"]]
    /\ Goto(t, "agent_select", arg[t], 0)
    /\ UNCHANGED <<regVars, procVars, uuids, configs, relayVars>>

\* the closing SELECT ... fetch_one of spawn_agent
AgentSelect(t) ==
    /\ pc[t] = "agent_select"
    /\ Return(t, "spawn_agent", arg[t], IF db[arg[t]].status = "absent" THEN Err ELSE Ok)
    /\ UNCHANGED <<regVars, procVars, dbVars, relayVars>>

(* -------------------------- agent_configs.rs -------------------------- *)
\* add_db: INSERT under a fresh uuid; is_default is left to the column's
\* default, which is 0
AddConfig(t) ==
    /\ pc[t] = "idle"
    /\ \E k \in KeyIds \ uuids :
        /\ uuids' = uuids \cup {k}
        /\ configs' = [configs EXCEPT ![k] = ConfigRow(FALSE)]
        /\ Return(t, "add_agent_config", k, Ok)
    /\ UNCHANGED <<regVars, procVars, db, relayVars>>

\* the table after DELETE FROM agent_configs WHERE id = k AND is_default = 0
Deleted(k) ==
    [j \in ConfigIds |->
        IF j = k /\ configs[j].present /\ ~configs[j].is_default THEN NoConfig
        ELSE configs[j]]

\* delete_db
DeleteConfig(t, k) ==
    /\ pc[t] = "idle"
    /\ configs' = Deleted(k)
    /\ Return(t, "delete_agent_config", k, Ok)
    /\ UNCHANGED <<regVars, procVars, db, uuids, relayVars>>

\* set_default_db: UPDATE agent_configs SET is_default = CASE WHEN id = k THEN
\* 1 ELSE 0 END, on every row, whether or not a row has id k
SetDefaultConfig(t, k) ==
    /\ pc[t] = "idle"
    /\ configs' = [j \in ConfigIds |->
            IF configs[j].present THEN ConfigRow(j = k) ELSE configs[j]]
    /\ Return(t, "set_default_agent_config", k, Ok)
    /\ UNCHANGED <<regVars, procVars, db, uuids, relayVars>>

(* ------------- pty_manager.rs: spawn_agent / spawn_shell -------------- *)
\* a spawn that starts the child and its pump before the calls that can fail
SpawnOpenPumpFirst(t) ==
    /\ pc[t] \in {"shell_open", "agent_open"}
    /\ nprocs < Cardinality(Pids)
    /\ nprocs' = nprocs + 1
    /\ proc' = [proc EXCEPT ![nprocs + 1] =
          [NoProc EXCEPT !.sid = arg[t], !.state = "running", !.pump = "read"]]
    /\ Return(t, IF pc[t] = "shell_open" THEN "spawn_shell" ELSE "spawn_agent", arg[t], Err)
    /\ UNCHANGED <<notified, regVars, dbVars, relayVars>>

\* openpty, spawn_command, take_writer, try_clone_reader and spawn_blocking:
\* any of the four fallible calls returns the error (a child whose writer or
\* reader could not be obtained is dropped with the pair, never registered nor
\* pumped, and is not counted); otherwise the child runs and its pump thread is
\* started, before the session is inserted
SpawnOpen(t) ==
    /\ pc[t] \in {"shell_open", "agent_open"}
    /\ \/ /\ Return(t, IF pc[t] = "shell_open" THEN "spawn_shell" ELSE "spawn_agent", arg[t], Err)
          /\ UNCHANGED procVars
       \/ /\ nprocs < Cardinality(Pids)
          /\ LET p == nprocs + 1 IN
             /\ nprocs' = p
             /\ proc' = [proc EXCEPT ![p] =
                   [NoProc EXCEPT !.sid = arg[t], !.state = "running", !.pump = "read"]]
             /\ Goto(t, IF pc[t] = "shell_open" THEN "shell_insert" ELSE "agent_insert",
                     arg[t], p)
          /\ UNCHANGED notified
    /\ UNCHANGED <<regVars, dbVars, relayVars>>

\* self.sessions.lock().unwrap().insert(session_id, session): the entry the
\* insert displaces, if any, is dropped
SpawnInsert(t) ==
    /\ pc[t] \in {"shell_insert", "agent_insert"}
    /\ lock = "free"
    /\ sessions' = [sessions EXCEPT ![arg[t]] = NewSession(tp[t])]
    /\ IF pc[t] = "shell_insert"
       THEN Return(t, "spawn_shell", arg[t], Ok)
       ELSE Goto(t, "agent_status", arg[t], 0)
    /\ UNCHANGED <<lock, procVars, dbVars, relayVars>>

(* ----------------- kill_agent / PtyManager::kill_session -------------- *)
\* a kill_session that signals under the lock whether or not it found an entry
KillRemoveUnchecked(t, id) ==
    /\ pc[t] = "idle"
    /\ lock = "free"
    /\ sessions' = [sessions EXCEPT ![id] = NoSession]
    /\ lock' = t
    /\ Goto(t, "kill_io", id, sessions[id].pid)
    /\ UNCHANGED <<procVars, dbVars, relayVars>>

\* sessions.lock().unwrap().remove(id): the guard is a temporary of the
\* if-let scrutinee, so it is still held in the body of the if-let
KillRemove(t, id) ==
    /\ pc[t] = "idle"
    /\ lock = "free"
    /\ IF Registered(id)
       THEN /\ sessions' = [sessions EXCEPT ![id] = NoSession]
            /\ lock' = t
            /\ Goto(t, "kill_io", id, sessions[id].pid)
       ELSE /\ UNCHANGED regVars
            /\ Goto(t, "kill_db", id, 0)
    /\ UNCHANGED <<procVars, dbVars, relayVars>>

\* session.child.kill(), then the guard and the removed session are dropped
KillChild(t) ==
    /\ pc[t] = "kill_io"
    /\ proc' = [proc EXCEPT ![tp[t]].killed = TRUE, ![tp[t]].state = "exited"]
    /\ lock' = "free"
    /\ Goto(t, "kill_db", arg[t], 0)
    /\ UNCHANGED <<sessions, nprocs, notified, dbVars, relayVars>>

\* DELETE FROM agent_sessions WHERE id = ?
KillDb(t) ==
    /\ pc[t] = "kill_db"
    /\ db' = [db EXCEPT ![arg[t]] = NoRow]
    /\ Return(t, "kill_agent", arg[t], Ok)
    /\ UNCHANGED <<regVars, procVars, uuids, configs, relayVars>>

(* -------------- write_to_agent / PtyManager::write_to_session --------- *)
\* a write_to_session that looks the session up without keeping the guard
WriteLookupUnlocked(t, id) ==
    /\ pc[t] = "idle"
    /\ lock = "free"
    /\ IF Registered(id)
       THEN Goto(t, "write_io", id, sessions[id].pid)
       ELSE Return(t, "write_to_agent", id, NotFound)
    /\ UNCHANGED <<regVars, procVars, dbVars, relayVars>>

WriteLookup(t, id) ==
    /\ pc[t] = "idle"
    /\ lock = "free"
    /\ IF Registered(id)
       THEN /\ lock' = t
            /\ Goto(t, "write_io", id, sessions[id].pid)
       ELSE /\ UNCHANGED lock
            /\ Return(t, "write_to_agent", id, NotFound)
    /\ UNCHANGED <<sessions, procVars, dbVars, relayVars>>

\* a write that drops the session when write_all fails
WriteIoDropsOnError(t) ==
    /\ pc[t] = "write_io"
    /\ lock' = "free"
    /\ \/ /\ Return(t, "write_to_agent", arg[t], Ok)
          /\ UNCHANGED sessions
       \/ /\ Return(t, "write_to_agent", arg[t], Err)
          /\ sessions' = [sessions EXCEPT ![arg[t]] = NoSession]
    /\ UNCHANGED <<procVars, dbVars, relayVars>>

\* session.writer.write_all(data)?, under the guard taken by the lookup
WriteIo(t) ==
    /\ pc[t] = "write_io"
    /\ lock' = "free"
    /\ \E r \in {Ok, Err} : Return(t, "write_to_agent", arg[t], r)
    /\ UNCHANGED <<sessions, procVars, dbVars, relayVars>>

\* the bytes thread t passes to write_to_agent: two, distinct for every thread
Data(t) == <<<<t, 1>>, <<t, 2>>>>

\* bytes written to the pseudo-terminal of child p that it has not read yet
Queued(p) == Len(proc[p].input) - proc[p].consumed

RECURSIVE SumInput(_)
SumInput(n) == IF n = 0 THEN 0 ELSE Len(proc[n].input) + SumInput(n - 1)

\* bytes written by all calls so far, and bytes the calls under way still owe
BytesWritten == SumInput(nprocs)
BytesOwed == 2 * Cardinality({t \in Threads : pc[t] = "write_io"})
                + Cardinality({t \in Threads : pc[t] = "write_rest"})

\* a further write_to_agent stays within maxWrites calls
CanWrite(maxWrites) == BytesWritten + BytesOwed + Len(Data("t1")) <= 2 * maxWrites

\* one write() of session.writer.write_all(data), byte k of Data(t), under the
\* guard taken by the lookup: it fails when the child is gone, and otherwise
\* returns once the input queue (cap bytes) has room for the byte; write_all
\* returns the error, or Ok after the last byte
WriteByte(t, k, cap) ==
    /\ pc[t] = (IF k = 1 THEN "write_io" ELSE "write_rest")
    /\ LET p == tp[t] IN
       IF proc[p].state = "exited"
       THEN /\ lock' = "free"
            /\ Return(t, "write_to_agent", arg[t], Err)
            /\ UNCHANGED proc
       ELSE /\ Queued(p) < cap
            /\ proc' = [proc EXCEPT ![p].input = Append(@, Data(t)[k])]
            /\ IF k < Len(Data(t))
               THEN Goto(t, "write_rest", arg[t], p) /\ UNCHANGED lock
               ELSE lock' = "free" /\ Return(t, "write_to_agent", arg[t], Ok)
    /\ UNCHANGED <<sessions, nprocs, notified, dbVars, relayVars>>

(* ----------------- resize_pty / PtyManager::resize_session ------------ *)
\* a resize that reports an id it does not find
ResizeLookupStrict(t, id) ==
    /\ pc[t] = "idle"
    /\ lock = "free"
    /\ IF Registered(id)
       THEN /\ lock' = t
            /\ Goto(t, "resize_io", id, sessions[id].pid)
       ELSE /\ UNCHANGED lock
            /\ Return(t, "resize_pty", id, NotFound)
    /\ UNCHANGED <<sessions, procVars, dbVars, relayVars>>

\* if let Some(session) = sessions.get(id) { .. }; Ok(()) when there is none
ResizeLookup(t, id) ==
    /\ pc[t] = "idle"
    /\ lock = "free"
    /\ IF Registered(id)
       THEN /\ lock' = t
            /\ Goto(t, "resize_io", id, sessions[id].pid)
       ELSE /\ UNCHANGED lock
            /\ Return(t, "resize_pty", id, Ok)
    /\ UNCHANGED <<sessions, procVars, dbVars, relayVars>>

\* session.master.resize(..)?, under the guard taken by the lookup
ResizeIo(t) ==
    /\ pc[t] = "resize_io"
    /\ lock' = "free"
    /\ \E r \in {Ok, Err} : Return(t, "resize_pty", arg[t], r)
    /\ UNCHANGED <<sessions, procVars, dbVars, relayVars>>

(* --------------------- sessions.rs: get_scrollback -------------------- *)
GetScrollback(t, id) ==
    /\ pc[t] = "idle"
    /\ lock = "free"
    /\ IF get_session(id).tag = "some"
       THEN Return(t, "get_scrollback", id, Result("bytes", get_session(id).data))
       ELSE Goto(t, "scrollback_db", id, 0)
    /\ UNCHANGED <<regVars, procVars, dbVars, relayVars>>

\* a fallback that returns a byte whatever the row holds
ScrollbackNeverEmpty(row) == <<0>>

\* session.and_then(|s| s.scrollback).unwrap_or_default().into_bytes()
ScrollbackOfRow(row) ==
    IF row.status # "absent" /\ row.hasScrollback THEN row.scrollback ELSE <<>>

GetScrollbackDb(t) ==
    /\ pc[t] = "scrollback_db"
    /\ Return(t, "get_scrollback", arg[t], Result("bytes", ScrollbackOfRow(db[arg[t]])))
    /\ UNCHANGED <<regVars, procVars, dbVars, relayVars>>

(* ------------------------ the child process -------------------------- *)
\* the child exits on its own
ProcExit(p) ==
    /\ ret' = NoReturn
    /\ proc[p].state = "running"
    /\ proc' = [proc EXCEPT ![p].state = "exited"]
    /\ UNCHANGED <<regVars, nprocs, notified, threadVars, dbVars, relayVars>>

(* ------------- the pump: the spawn_blocking closure of spawn_* -------- *)
\* receivers of the broadcast channel: one per running handle_socket
Receivers == {c \in Clients : cpc[c] = "connected"}

\* the (session_id, data) tuple the pump sends
Message(id, data) == [session_id |-> id, data |-> data]

\* broadcast::Sender::send: refused when there is no receiver, else queued
HubSend(h, m) == IF Receivers = {} THEN h ELSE Append(h, m)

RECURSIVE SumRead(_)
SumRead(n) == IF n = 0 THEN 0 ELSE proc[n].nread + SumRead(n - 1)

\* chunks read by all pumps so far
ChunksRead == SumRead(nprocs)

\* the child reads a byte of its input; it does not while it waits in a write
ChildRead(p) ==
    /\ ret' = NoReturn
    /\ proc[p].state = "running"
    /\ ~proc[p].blocked
    /\ Queued(p) > 0
    /\ proc' = [proc EXCEPT ![p].consumed = @ + 1]
    /\ UNCHANGED <<regVars, nprocs, notified, threadVars, dbVars, relayVars>>

\* children that wait in a write for their output to be read
Blocked == {p \in Pids : proc[p].blocked}

\* the child has filled the pseudo-terminal's output queue and waits in its
\* write until the pump reads (there is a chunk left for the pump to read)
ChildBlock(p, maxChunks) ==
    /\ ret' = NoReturn
    /\ proc[p].state = "running"
    /\ ~proc[p].blocked
    /\ ChunksRead + Cardinality(Blocked) < maxChunks
    /\ proc' = [proc EXCEPT ![p].blocked = TRUE]
    /\ UNCHANGED <<regVars, nprocs, notified, threadVars, dbVars, relayVars>>

\* reader.read returns Ok(n), n > 0: the chunk is copied out of buf and sent
\* to the channel (bytes the child wrote stay readable after it has exited);
\* the read makes room for a child that waited to write more
PumpRead(p, maxChunks) ==
    /\ ret' = NoReturn
    /\ proc[p].pump = "read"
    /\ ChunksRead < maxChunks
    /\ LET n == proc[p].nread + 1 IN
       /\ proc' = [proc EXCEPT ![p].nread = n, ![p].pump = "append", ![p].blocked = FALSE]
       /\ hub' = HubSend(hub, Message(proc[p].sid, Chunk(p, n)))
    /\ UNCHANGED <<regVars, nprocs, notified, threadVars, dbVars, cpc, cursor, subAt, lagged,
                   recvd, listener>>

\* the entry the pump's map.get_mut(&sid) finds: whatever is registered under sid
PumpTarget(p) == proc[p].sid

\* an append that leaves the lock after the first byte of the chunk
PumpAppendTorn(p) ==
    /\ ret' = NoReturn
    /\ proc[p].pump = "append"
    /\ lock = "free"
    /\ LET id == PumpTarget(p) IN
       sessions' = IF Registered(id)
                   THEN [sessions EXCEPT ![id].scrollback = Append(@, p)]
                   ELSE sessions
    /\ proc' = [proc EXCEPT ![p].pump = "read"]
    /\ UNCHANGED <<lock, nprocs, notified, threadVars, dbVars, relayVars>>

\* if let Some(s) = map.get_mut(&sid) { s.scrollback.extend_from_slice(&data) }
PumpAppend(p) ==
    /\ ret' = NoReturn
    /\ proc[p].pump = "append"
    /\ lock = "free"
    /\ LET id == PumpTarget(p) IN
       sessions' = IF Registered(id)
                   THEN [sessions EXCEPT ![id].scrollback = @ \o Chunk(p, proc[p].nread)]
                   ELSE sessions
    /\ proc' = [proc EXCEPT ![p].pump = "read"]
    /\ UNCHANGED <<lock, nprocs, notified, threadVars, dbVars, relayVars>>

\* a stream end that emits session-exited whether or not it found an entry
PumpStreamEndAlwaysEmits(p) ==
    /\ ret' = NoReturn
    /\ proc[p].pump = "read"
    /\ proc[p].state = "exited"
    /\ lock = "free"
    /\ LET id == PumpTarget(p) IN
       sessions' = IF Registered(id)
                   THEN [sessions EXCEPT ![id].status = "Stopped"]
                   ELSE sessions
    /\ notified' = [notified EXCEPT ![p] = @ + 1]
    /\ proc' = [proc EXCEPT ![p].pump = "done"]
    /\ UNCHANGED <<lock, nprocs, threadVars, dbVars, relayVars>>

\* reader.read returns Ok(0) or Err: the loop breaks; under the lock the entry
\* found under sid, if any, is set to Stopped, and if one was found
\* (natural_exit) "session-exited" is emitted once the lock is released
PumpStreamEnd(p) ==
    /\ ret' = NoReturn
    /\ proc[p].pump = "read"
    /\ proc[p].state = "exited"
    /\ lock = "free"
    /\ LET id == PumpTarget(p) IN
       IF Registered(id)
       THEN /\ sessions' = [sessions EXCEPT ![id].status = "Stopped"]
            /\ notified' = [notified EXCEPT ![sessions[id].pid] = @ + 1]
       ELSE UNCHANGED <<sessions, notified>>
    /\ proc' = [proc EXCEPT ![p].pump = "done"]
    /\ UNCHANGED <<lock, nprocs, threadVars, dbVars, relayVars>>

(* ------------------------ ws_server.rs: start ------------------------- *)
\* an address on every interface instead of the loopback one
server_addr_any(port) == SocketAddr(<<0, 0, 0, 0>>, port)

\* SocketAddr::from(([127, 0, 0, 1], port))
server_addr(port) == SocketAddr(<<127, 0, 0, 1>>, port)

\* the task lib.rs spawns at setup: ws_server::start(9731, tx) binds the
\* listener to server_addr(port) and serves, or returns the bind error, which
\* is printed; nothing calls start again
RelayStart ==
    /\ ret' = NoReturn
    /\ listener.state = "unbound"
    /\ \/ listener' = [state |-> "bound", addr |-> server_addr(RelayPort)]
       \/ listener' = [state |-> "failed", addr |-> NotListening.addr]
    /\ UNCHANGED <<regVars, procVars, threadVars, dbVars, hub, cpc, cursor, subAt, lagged,
                   recvd>>

(* --------------------- ws_server.rs: handle_socket -------------------- *)
\* a frame that does not say which session its bytes belong to
FrameWithoutSession(m) == [type |-> "TerminalOutput", session_id |-> NoId, data |-> m.data]

\* the frame serde_json writes for WsMessage::TerminalOutput
Frame(m) == [type |-> "TerminalOutput", session_id |-> m.session_id, data |-> m.data]

\* a channel that never overtakes a receiver
NeverLagging(c, cap) == FALSE

\* the receiver has been overtaken: its next message is no longer retained by
\* a channel of capacity cap
Lagging(c, cap) == Len(hub) - cursor[c] > cap

\* a receiver that resumes just before the newest message
NewestOnly(cap) == Len(hub) - 1

\* where a receiver that returned Lagged resumes: just before the oldest message
\* a channel of capacity cap still retains
OldestRetained(cap) == Len(hub) - cap

\* a receiver that starts at the first message the channel ever accepted
SubscribeFromStart(c) == 0

\* let mut rx = tx.subscribe(): the receiver starts at the tail of the channel
Subscribe(c) == Len(hub)

ClientConnect(c) ==
    /\ ret' = NoReturn
    /\ listener.state = "bound"
    /\ cpc[c] = "init"
    /\ cpc' = [cpc EXCEPT ![c] = "connected"]
    /\ cursor' = [cursor EXCEPT ![c] = Subscribe(c)]
    /\ subAt' = [subAt EXCEPT ![c] = Len(hub)]
    /\ UNCHANGED <<regVars, procVars, threadVars, dbVars, hub, lagged, recvd, listener>>

\* a receiver that hands out a message without moving past it
NoAdvance(c) == cursor[c]

\* the message rx.recv() hands out next, and the receiver's position after it
NextMessage(c) == hub[cursor[c] + 1]
Advance(c) == cursor[c] + 1

\* a return of handle_socket that takes every other client's loop down with it
DropEveryReceiver(c) ==
    /\ cpc' = [d \in Clients |-> "closed"]
    /\ cursor' = [d \in Clients |-> 0]
    /\ subAt' = [d \in Clients |-> 0]
    /\ lagged' = [d \in Clients |-> FALSE]

\* handle_socket returns: rx is dropped with the function's locals
DropReceiver(c) ==
    /\ cpc' = [cpc EXCEPT ![c] = "closed"]
    /\ cursor' = [cursor EXCEPT ![c] = 0]
    /\ subAt' = [subAt EXCEPT ![c] = 0]
    /\ lagged' = [lagged EXCEPT ![c] = FALSE]

\* rx.recv() returns Ok((session_id, data)); the frame is sent to the socket,
\* and the loop breaks when that send fails
ClientForward(c, cap) ==
    /\ ret' = NoReturn
    /\ cpc[c] = "connected"
    /\ cursor[c] < Len(hub)
    /\ ~Lagging(c, cap)
    /\ \/ /\ recvd' = [recvd EXCEPT ![c] = Append(@, Frame(NextMessage(c)))]
          /\ cursor' = [cursor EXCEPT ![c] = Advance(c)]
          /\ UNCHANGED <<cpc, subAt, lagged>>
       \/ /\ DropReceiver(c)
          /\ UNCHANGED recvd
    /\ UNCHANGED <<regVars, procVars, threadVars, dbVars, hub, listener>>

\* rx.recv() returns Err(Lagged(_)): the receiver moves to the oldest message
\* the channel still retains, and the loop continues
ClientLagged(c, cap) ==
    /\ ret' = NoReturn
    /\ cpc[c] = "connected"
    /\ Lagging(c, cap)
    /\ cursor' = [cursor EXCEPT ![c] = OldestRetained(cap)]
    /\ lagged' = [lagged EXCEPT ![c] = TRUE]
    /\ UNCHANGED <<regVars, procVars, threadVars, dbVars, hub, cpc, subAt, recvd, listener>>

\* socket.recv() returns a Close frame or None: the loop breaks
ClientClose(c) ==
    /\ ret' = NoReturn
    /\ cpc[c] = "connected"
    /\ DropReceiver(c)
    /\ UNCHANGED <<regVars, procVars, threadVars, dbVars, hub, recvd, listener>>

(* ------------------------------- Next --------------------------------- *)
\* spawn_shell and kill_agent on the shell ids
Lifecycle(t, maxProcs) ==
    \/ \E id \in ShellIds : SpawnShellCheck(t, id, maxProcs)
    \/ SpawnOpen(t)
    \/ SpawnInsert(t)
    \/ \E id \in ShellIds : KillRemove(t, id)
    \/ KillChild(t)
    \/ KillDb(t)

\* get_scrollback on the shell ids
Scrollback(t) ==
    \/ \E id \in ShellIds : GetScrollback(t, id)
    \/ GetScrollbackDb(t)

\* write_to_agent and resize_pty on the shell ids
ShellIo(t) ==
    \/ \E id \in ShellIds : WriteLookup(t, id)
    \/ WriteIo(t)
    \/ \E id \in ShellIds : ResizeLookup(t, id)
    \/ ResizeIo(t)

\* spawn_agent, and the commands that take a session id on the agent ids
Agent(t, maxProcs) ==
    \/ SpawnAgentCreate(t, maxProcs)
    \/ AgentStatus(t)
    \/ AgentSelect(t)
    \/ \E id \in AgentIds : KillRemove(t, id)
    \/ \E id \in AgentIds : GetScrollback(t, id)
    \/ \E id \in AgentIds : WriteLookup(t, id)
    \/ \E id \in AgentIds : ResizeLookup(t, id)

\* spawn_shell and spawn_agent
Spawns(t, maxProcs) ==
    \/ \E id \in ShellIds : SpawnShellCheck(t, id, maxProcs)
    \/ SpawnAgentCreate(t, maxProcs)
    \/ SpawnOpen(t)
    \/ SpawnInsert(t)
    \/ AgentStatus(t)
    \/ AgentSelect(t)

Pump(p, maxChunks) ==
    \/ ProcExit(p)
    \/ PumpRead(p, maxChunks)
    \/ PumpAppend(p)
    \/ PumpStreamEnd(p)

Client(c, cap) ==
    \/ ClientConnect(c)
    \/ ClientForward(c, cap)
    \/ ClientLagged(c, cap)
    \/ ClientClose(c)

\* two threads of the command layer spawning, killing and reading one shell id,
\* and the pumps they start
Next ==
    \/ \E t \in Threads : Lifecycle(t, MaxProcs)
    \/ \E t \in Threads : Scrollback(t)
    \/ \E p \in Pids : Pump(p, MaxChunks)

Spec == Init /\ [][Next]_vars

\* the same two threads, also writing to and resizing the shell
NextIo ==
    \/ \E t \in Threads : Lifecycle(t, IoProcs)
    \/ \E t \in Threads : ShellIo(t)
    \/ \E p \in Pids : Pump(p, IoChunks)

SpecIo == Init /\ [][NextIo]_vars

\* one thread of the command layer, the pumps it starts and the relay's clients
NextRelay ==
    \/ RelayStart
    \/ \E t \in {"t1"} : Lifecycle(t, RelayProcs)
    \/ \E p \in Pids : Pump(p, RelayChunks)
    \/ \E c \in Clients : Client(c, HubCap)

SpecRelay == Init /\ [][NextRelay]_vars

\* the same thread and pumps, one client, and a channel that retains LagCap
\* messages
NextLag ==
    \/ RelayStart
    \/ \E t \in {"t1"} : Lifecycle(t, LagProcs)
    \/ \E p \in Pids : Pump(p, LagChunks)
    \/ \E c \in {"c1"} : Client(c, LagCap)

SpecLag == Init /\ [][NextLag]_vars

\* the agent config commands, on ids the table holds and ids it does not
NextConfigs ==
    \/ \E t \in {"t1"} : AddConfig(t)
    \/ \E t \in {"t1"}, k \in ConfigIds : DeleteConfig(t, k)
    \/ \E t \in {"t1"}, k \in ConfigIds : SetDefaultConfig(t, k)

SpecConfigs == Init /\ [][NextConfigs]_vars

\* one thread spawning a shell and an agent session, their pumps while the
\* children live (reading, publishing and appending) and the relay's clients
NextFan ==
    \/ RelayStart
    \/ \E t \in {"t1"} : Spawns(t, FanProcs)
    \/ \E p \in Pids : PumpRead(p, FanChunks)
    \/ \E p \in Pids : PumpAppend(p)
    \/ \E c \in Clients : Client(c, FanCap)

SpecFan == Init /\ [][NextFan]_vars

\* one thread of the command layer issuing every session command, on the shell
\* and on the agent ids, and the pumps it starts
NextApi ==
    \/ \E t \in {"t1"} : Lifecycle(t, ApiProcs)
    \/ \E t \in {"t1"} : Agent(t, ApiProcs)
    \/ \E t \in {"t1"} : Scrollback(t)
    \/ \E t \in {"t1"} : ShellIo(t)
    \/ \E p \in Pids : Pump(p, ApiChunks)

SpecApi == Init /\ [][NextApi]_vars

\* two threads spawning, killing and writing to the shell, the writes seen
\* byte by byte, a child that reads its input unless it waits for its output
\* to be read, and the pumps
PtyStep(t) ==
    \/ SpawnOpen(t)
    \/ SpawnInsert(t)
    \/ KillChild(t)
    \/ KillDb(t)
    \/ \E k \in 1..Len(Data(t)) : WriteByte(t, k, PtyCap)

PtyPump(p) ==
    \/ PumpRead(p, PtyChunks)
    \/ PumpAppend(p)
    \/ PumpStreamEnd(p)

NextPty ==
    \/ \E t \in Threads, id \in ShellIds : SpawnShellCheck(t, id, PtyProcs)
    \/ \E t \in Threads, id \in ShellIds : KillRemove(t, id)
    \/ \E t \in Threads, id \in ShellIds : CanWrite(PtyWrites) /\ WriteLookup(t, id)
    \/ \E t \in Threads : PtyStep(t)
    \/ \E p \in Pids : PtyPump(p)
    \/ \E p \in Pids : ChildRead(p)
    \/ \E p \in Pids : ChildBlock(p, PtyChunks)
    \/ \E p \in Pids : ~proc[p].blocked /\ ProcExit(p)

SpecPty == Init /\ [][NextPty]_vars

\* every call under way, every pump and every child that can read gets its
\* turn, also at the lock; nothing obliges a caller to start a call, a child
\* to write or to exit
FairPty ==
    /\ \A t \in Threads : SF_vars(PtyStep(t))
    /\ \A p \in Pids : SF_vars(PtyPump(p))
    /\ \A p \in Pids : WF_vars(ChildRead(p))

SpecPtyFair == SpecPty /\ FairPty

\* an observer: the client of SpecLag, and the same thread also reading the
\* scrollback
NextObserve ==
    \/ NextLag
    \/ \E t \in {"t1"} : Scrollback(t)

SpecObserve == Init /\ [][NextObserve]_vars

\* the writes alone: one thread spawning the shell, two threads writing to
\* it byte by byte, and a child that reads its input until it exits
NextWrite ==
    \/ \E t \in {"t1"}, id \in ShellIds : SpawnShellCheck(t, id, PtyProcs)
    \/ \E t \in {"t1"} : SpawnOpen(t)
    \/ \E t \in {"t1"} : SpawnInsert(t)
    \/ \E t \in Threads, id \in ShellIds : CanWrite(PtyWrites) /\ WriteLookup(t, id)
    \/ \E t \in Threads : \E k \in 1..Len(Data(t)) : WriteByte(t, k, PtyCap)
    \/ \E p \in Pids : ChildRead(p)
    \/ \E p \in Pids : ProcExit(p)

SpecWrite == Init /\ [][NextWrite]_vars

(* ------------------------------ claims -------------------------------- *)
\* children spawned under id, and the entry's child when id is registered
ProcsOf(id) == {p \in Pids : proc[p].sid = id}
PumpRunning(p) == proc[p].pump \in {"read", "append"}
SoleProcess(id) == Cardinality(ProcsOf(id)) = 1

\* C1: for every session id there is at most one child that has not terminated
\* and at most one pump that is still running, at any time.
C1_OneProcessOnePumpPerId ==
    \A id \in SessionIds :
        /\ Cardinality({p \in ProcsOf(id) : proc[p].state = "running"}) <= 1
        /\ Cardinality({p \in ProcsOf(id) : PumpRunning(p)}) <= 1

\* C2: for a registered (spawned, not killed) session whose pump is not in the
\* middle of an append, get_scrollback returns the concatenation of all the
\* chunks the pump has read, in order (stated for an id with a single child, so
\* that no other pump writes to the entry).
C2_ScrollbackIsAllChunksRead ==
    \A id \in SessionIds :
        (Registered(id) /\ SoleProcess(id) /\ proc[sessions[id].pid].pump # "append")
            => get_session(id).data
                 = ChunksUpTo(sessions[id].pid, proc[sessions[id].pid].nread)

\* C3: when the pump of a registered, not killed session has seen the stream
\* end, the session is Stopped and exactly one session-exited was emitted for it
\* (stated for an id with a single child).
C3_NaturalExitStopsAndNotifiesOnce ==
    \A id \in SessionIds :
        (Registered(id) /\ SoleProcess(id) /\ proc[sessions[id].pid].pump = "done")
            => /\ sessions[id].status = "Stopped"
               /\ notified[sessions[id].pid] = 1

\* C4: at most one session-exited notification is ever emitted for a spawned
\* session.
C4_AtMostOneExitNotification ==
    \A p \in Pids : notified[p] <= 1

\* C5: the status registered under an id is never Idle, and once it is Stopped
\* it is not Running again for as long as the id stays registered.
C5_StatusOnlyRunningToStopped ==
    /\ [](\A id \in SessionIds : sessions[id].status \in {"Absent", "Running", "Stopped"})
    /\ [][\A id \in SessionIds :
            (sessions[id].status = "Stopped" /\ sessions'[id].pid # 0)
                => sessions'[id].status = "Stopped"]_vars

\* thread t, idle before the step, calls spawn_shell(id) in the step
CallsSpawnShell(t, id) ==
    /\ pc[t] = "idle"
    /\ \/ pc'[t] = "shell_open" /\ arg'[t] = id
       \/ ret'.thread = t /\ ret'.op = "spawn_shell" /\ ret'.id = id

\* C6: spawn_shell(id) called while a Running session is registered under id
\* returns success at once: no child is spawned, no pump started, and the
\* registry entry (status, scrollback) is left as it was.
C6_SecondSpawnShellIsNoOp ==
    [][\A t \in Threads, id \in ShellIds :
        (sessions[id].status = "Running" /\ CallsSpawnShell(t, id))
            => /\ ret' = Returned(t, "spawn_shell", id, Ok)
               /\ pc'[t] = "idle"
               /\ UNCHANGED <<sessions, proc, nprocs, notified, hub>>]_vars

\* a spawn_shell call has just returned success on a session that already
\* holds output, so it is not the call that inserted the session
C6_Witness ==
    \E t \in Threads, id \in ShellIds :
        /\ ret = Returned(t, "spawn_shell", id, Ok)
        /\ sessions[id].status = "Running"
        /\ sessions[id].scrollback # <<>>

\* C7: whenever an entry leaves the registry, removed or displaced, its child
\* has been sent the terminate signal or the removing thread is about to send it.
C7_LeavingRegistryTerminatesChild ==
    [][\A id \in SessionIds :
        (sessions[id].pid # 0 /\ sessions'[id].pid # sessions[id].pid)
            => \/ proc'[sessions[id].pid].killed
               \/ \E t \in Threads : pc'[t] = "kill_io" /\ tp'[t] = sessions[id].pid]_vars

\* C8: no thread is at a write to the pseudo-terminal, a resize call or a child
\* kill while it holds the registry lock.
C8_NoBlockingIoUnderLock ==
    \A t \in Threads :
        pc[t] \in {"write_io", "resize_io", "kill_io"} => lock # t

\* the child and the sequence number a chunk carries
ChunkPid(d) == d[1]
ChunkSeq(d) == d[2]

FramesSinceSubscription(c) ==
    [i \in 1..(cursor[c] - subAt[c]) |-> Frame(hub[subAt[c] + i])]

\* every frame c received is of a message published after c subscribed
OnlyLaterMessages(c) ==
    \A i \in 1..Len(recvd[c]) :
        \E j \in (subAt[c] + 1)..cursor[c] : recvd[c][i] = Frame(hub[j])

\* C10 as claimed: a connected client has received none of the messages
\* published before it subscribed and every message published afterwards that
\* its receiver is past.
C10_LateSubscriberGetsAllLater ==
    \A c \in Clients :
        cpc[c] = "connected"
            => OnlyLaterMessages(c) /\ recvd[c] = FramesSinceSubscription(c)

\* C10 as amended: a connected client has received none of the messages
\* published before it subscribed; and as long as its receiver never lagged
\* behind by more than the channel's capacity, it has received every message
\* published afterwards that its receiver is past.
C10_LateSubscriberGetsLaterUnlessLagged ==
    \A c \in Clients :
        cpc[c] = "connected"
            => /\ OnlyLaterMessages(c)
               /\ ~lagged[c] => recvd[c] = FramesSinceSubscription(c)

\* a client that subscribed after a message had been published has received a
\* later one
C10_Witness ==
    \E c \in Clients :
        /\ cpc[c] = "connected"
        /\ subAt[c] > 0
        /\ ~lagged[c]
        /\ Len(recvd[c]) > 0

\* the pump of child p reads a chunk and sends it to the channel in the step
Publishes(p) == proc'[p].nread = proc[p].nread + 1

\* C11: a pump that has a chunk to publish is never held up by the channel or
\* its receivers, whatever their number and position (none included): the send
\* step is enabled and only queues the message (or drops it when there is no
\* receiver), touching no receiver; and the channel retains at most HubCap
\* messages, so a frame handed to a client is always of one of the HubCap newest
\* messages, older undelivered ones having been dropped.
C11_PublishNeverBlocksHubBounded ==
    /\ [](\A p \in Pids :
            (proc[p].pump = "read" /\ ChunksRead < RelayChunks)
                => ENABLED PumpRead(p, RelayChunks))
    /\ [][\A p \in Pids :
            Publishes(p)
                => /\ proc'[p].pump = "append"
                   /\ hub' \in {hub, Append(hub, [session_id |-> proc[p].sid,
                                                  data |-> <<p, proc'[p].nread>>])}
                   /\ (Receivers # {}) => Len(hub') = Len(hub) + 1
                   /\ UNCHANGED <<cpc, cursor, recvd, lock>>]_vars
    /\ [][\A c \in Clients :
            Len(recvd'[c]) > Len(recvd[c])
                => \E j \in 1..Len(hub) :
                     /\ j > Len(hub) - HubCap
                     /\ recvd'[c] = Append(recvd[c], Frame(hub[j]))]_vars

\* the pump has published while a connected receiver was already a full
\* channel behind
C11_Witness ==
    \E c \in Clients : cpc[c] = "connected" /\ Len(hub) - cursor[c] > HubCap

\* the receiver of client c returns Lagged in the step: it moves forward
\* without handing out a message
LagStep(c) == cursor'[c] > cursor[c] /\ recvd'[c] = recvd[c]

\* C12 as claimed: a receiver that returns Lagged keeps its relay loop alive and
\* resumes at the newest message of the channel.
C12_LaggedResumesAtNewest ==
    [][\A c \in Clients :
        LagStep(c)
            => /\ cpc'[c] = "connected"
               /\ hub'[cursor'[c] + 1] = hub[Len(hub)]]_vars

\* C12 as amended: a receiver that returns Lagged keeps its relay loop alive,
\* skips exactly the messages the channel no longer retains and resumes at the
\* oldest message it still retains, LagCap - 1 messages before the newest.
C12_LaggedResumesAtOldestRetained ==
    [][\A c \in Clients :
        LagStep(c)
            => /\ cpc'[c] = "connected"
               /\ Len(hub) - cursor[c] > LagCap
               /\ hub'[cursor'[c] + 1] = hub[Len(hub) - LagCap + 1]]_vars

\* a client whose receiver lagged has been handed a message afterwards, and
\* that message was not the newest
C12_Witness ==
    \E c \in Clients :
        /\ cpc[c] = "connected"
        /\ lagged[c]
        /\ Len(recvd[c]) > 0
        /\ recvd[c][Len(recvd[c])] # Frame(hub[Len(hub)])

\* the relay loop of client c ends in the step
LoopEnds(c) == cpc[c] = "connected" /\ cpc'[c] = "closed"

\* C13: the step that ends the relay loop of a client (failed send, close frame
\* or end of the inbound stream) leaves the registry, every child and pump, the
\* notifications, the channel's messages and every other client's loop,
\* position and frames unchanged; and with no client connected a pump still
\* reads its next chunk and appends it to the entry registered under its id.
C13_LoopEndTouchesNothingElse ==
    /\ [][\A c \in Clients :
            LoopEnds(c)
                => /\ UNCHANGED <<sessions, lock, proc, nprocs, notified, hub>>
                   /\ recvd'[c] = recvd[c]
                   /\ \A d \in Clients \ {c} :
                        /\ cpc'[d] = cpc[d]
                        /\ cursor'[d] = cursor[d]
                        /\ recvd'[d] = recvd[d]]_vars
    /\ [](\A p \in Pids :
            (\A c \in Clients : cpc[c] # "connected")
                => /\ (proc[p].pump = "read" /\ ChunksRead < RelayChunks)
                        => ENABLED PumpRead(p, RelayChunks)
                   /\ (proc[p].pump = "append" /\ lock = "free")
                        => ENABLED PumpAppend(p))
    /\ [][\A p \in Pids :
            (proc[p].pump = "append" /\ proc'[p].pump = "read"
                /\ sessions[proc[p].sid].pid # 0)
                => sessions'[proc[p].sid].scrollback
                     = sessions[proc[p].sid].scrollback \o <<p, proc[p].nread>>]_vars

\* the loop of one client has ended while another client is connected and has
\* a message pending
C13_Witness ==
    \E c, d \in Clients :
        /\ cpc[c] = "closed"
        /\ cpc[d] = "connected"
        /\ cursor[d] < Len(hub)

\* id was never spawned: no child under it, no entry, no row
NeverSpawned(id) ==
    /\ ProcsOf(id) = {}
    /\ sessions[id].pid = 0
    /\ db[id].status = "absent"

\* thread t, idle before the step, calls get_scrollback(id) / write(id, ..) in
\* the step; a get_scrollback(id) of thread t returns in the step
CallsGetScrollback(t, id) ==
    /\ pc[t] = "idle"
    /\ \/ pc'[t] = "scrollback_db" /\ arg'[t] = id
       \/ ret'.thread = t /\ ret'.op = "get_scrollback" /\ ret'.id = id
ReturnsGetScrollback(t, id) ==
    ret'.thread = t /\ ret'.op = "get_scrollback" /\ ret'.id = id
CallsWrite(t, id) ==
    /\ pc[t] = "idle"
    /\ \/ pc'[t] = "write_io" /\ arg'[t] = id
       \/ ret'.thread = t /\ ret'.op = "write_to_agent" /\ ret'.id = id

\* C14: on an id that was never spawned, get_scrollback goes to the store and
\* returns the empty byte sequence, write returns the not-found error at once,
\* and no step of either call changes the registry.
C14_NeverSpawnedEmptyAndNotFound ==
    [][\A t \in Threads, id \in SessionIds :
        NeverSpawned(id)
            => /\ CallsGetScrollback(t, id)
                    => pc'[t] = "scrollback_db" /\ UNCHANGED <<sessions, lock>>
               /\ ReturnsGetScrollback(t, id)
                    => /\ ret'.tag = "bytes"
                       /\ ret'.data = <<>>
                       /\ UNCHANGED <<sessions, lock>>
               /\ CallsWrite(t, id)
                    => /\ ret'.tag = "notfound"
                       /\ pc'[t] = "idle"
                       /\ UNCHANGED <<sessions, lock>>]_vars

\* write on a never spawned id has just returned not-found, while another
\* session is registered and holds output
C14_Witness ==
    /\ ret.op = "write_to_agent"
    /\ ret.tag = "notfound"
    /\ ret.id \in SessionIds
    /\ NeverSpawned(ret.id)
    /\ \E id \in SessionIds : Len(sessions[id].scrollback) > 0

\* thread t, idle before the step, calls kill(id) in the step
CallsKill(t, id) ==
    /\ pc[t] = "idle"
    /\ pc'[t] \in {"kill_io", "kill_db"}
    /\ arg'[t] = id

\* C15: kill on an id that is not registered is a single step that returns
\* from kill_session (the thread goes on to the row delete) without taking the
\* lock, signalling any child or emitting a notification, and leaves the
\* registry as it was.
C15_KillAbsentIsNoOp ==
    [][\A t \in Threads, id \in SessionIds :
        (sessions[id].pid = 0 /\ CallsKill(t, id))
            => /\ pc'[t] = "kill_db"
               /\ tp'[t] = 0
               /\ UNCHANGED <<sessions, lock, proc, nprocs, notified, hub>>]_vars

\* kill_session has returned on an id that is not registered because an
\* earlier kill removed it, while one of its pumps is still running
C15_Witness ==
    \E t \in Threads :
        /\ pc[t] = "kill_db"
        /\ lock = "free"
        /\ \A p \in ProcsOf(arg[t]) : proc[p].killed
        /\ \E p \in ProcsOf(arg[t]) : PumpRunning(p)
        /\ \A u \in Threads \ {t} : pc[u] = "idle"
        /\ ret.op = "kill_agent"

\* child p exits on its own in the step, or its pump sees the stream end
NaturalExitStep(p) ==
    \/ proc[p].state = "running" /\ proc'[p].state = "exited" /\ ~proc'[p].killed
    \/ proc[p].pump = "read" /\ proc'[p].pump = "done"

\* C16: a natural exit (the child exiting, its pump seeing the stream end)
\* removes no entry; and once the pump of a registered, never killed child that
\* exited has finished, the entry is Stopped and get_scrollback returns all the
\* chunks that pump read (stated for an id with a single child).
C16_NaturalExitKeepsStoppedEntry ==
    /\ [][\A p \in Pids :
            NaturalExitStep(p)
                => \A id \in SessionIds : sessions'[id].pid = sessions[id].pid]_vars
    /\ [](\A id \in SessionIds :
            LET p == sessions[id].pid IN
            (p # 0 /\ SoleProcess(id) /\ proc[p].state = "exited" /\ ~proc[p].killed
                /\ proc[p].pump = "done")
                => /\ sessions[id].status = "Stopped"
                   /\ get_session(id).data = ChunksUpTo(p, proc[p].nread))

\* the PtyManager::spawn_shell / spawn_agent call of thread t returns an error
\* in the step
SpawnFails(t) ==
    /\ pc[t] \in {"shell_open", "agent_open"}
    /\ ret'.thread = t
    /\ ret'.tag = "err"

\* C17: a spawn_shell / spawn_agent whose pseudo-terminal, command, writer or
\* reader fails returns the error to its caller, and neither that step nor the
\* step that started the call changes the registry, starts a child or a pump,
\* or emits anything.
C17_FailedSpawnLeavesRegistry ==
    [][\A t \in Threads :
        /\ SpawnFails(t)
            => /\ ret'.op = (IF pc[t] = "shell_open" THEN "spawn_shell" ELSE "spawn_agent")
               /\ ret'.id = arg[t]
               /\ pc'[t] = "idle"
               /\ UNCHANGED <<sessions, lock, proc, nprocs, notified, hub>>
        /\ (pc[t] = "idle" /\ pc'[t] \in {"shell_open", "agent_open"})
            => UNCHANGED <<sessions, lock, proc, nprocs, notified, hub>>]_vars

\* spawn_agent has just returned an error: its id has no entry, no child and
\* no pump, while another session is registered
C17_Witness ==
    /\ ret.op = "spawn_agent"
    /\ ret.tag = "err"
    /\ ret.id \in AgentIds
    /\ sessions[ret.id].pid = 0
    /\ ProcsOf(ret.id) = {}
    /\ \E id \in SessionIds : sessions[id].pid # 0

\* the write_all / resize call of thread t returns an I/O error in the step
IoFails(t) ==
    /\ pc[t] \in {"write_io", "resize_io"}
    /\ ret'.thread = t
    /\ ret'.tag = "err"

\* C18: a write or resize on a registered session that fails with an I/O error
\* returns that error to its caller, releases the lock and leaves the entry
\* (membership, status, scrollback) and its child as they were; right after it
\* the id is still found by a lookup, so later commands operate on the session.
C18_IoErrorKeepsSession ==
    /\ [][\A t \in Threads :
            IoFails(t)
                => /\ ret'.op = (IF pc[t] = "write_io" THEN "write_to_agent" ELSE "resize_pty")
                   /\ ret'.id = arg[t]
                   /\ sessions[arg[t]].pid # 0
                   /\ lock = t /\ lock' = "free"
                   /\ pc'[t] = "idle"
                   /\ UNCHANGED <<sessions, proc, nprocs, notified>>]_vars
    /\ []((ret.tag = "err" /\ ret.op \in {"write_to_agent", "resize_pty"})
            => /\ sessions[ret.id].pid # 0
               /\ get_session(ret.id).tag = "some"
               /\ lock = "free")

\* a write has just failed on a session that is still registered, Running and
\* holding output
C18_Witness ==
    /\ ret.op = "write_to_agent"
    /\ ret.tag = "err"
    /\ ret.id \in SessionIds
    /\ sessions[ret.id].status = "Running"
    /\ Len(sessions[ret.id].scrollback) > 0

\* thread t, idle before the step, calls resize(id, ..) in the step
CallsResize(t, id) ==
    /\ pc[t] = "idle"
    /\ \/ pc'[t] = "resize_io" /\ arg'[t] = id
       \/ ret'.thread = t /\ ret'.op = "resize_pty" /\ ret'.id = id

\* C19: resize on an id that is not registered (never spawned, or killed) is a
\* single step that returns success and changes nothing; and no step of a
\* resize on any id changes the registry's membership, statuses or scrollbacks.
C19_ResizeAbsentOkNeverChangesRegistry ==
    [][\A t \in Threads, id \in SessionIds :
        /\ (sessions[id].pid = 0 /\ CallsResize(t, id))
            => /\ ret'.thread = t /\ ret'.op = "resize_pty" /\ ret'.id = id
               /\ ret'.tag = "ok"
               /\ pc'[t] = "idle"
               /\ UNCHANGED <<sessions, lock, proc, nprocs, notified, hub>>
        /\ (CallsResize(t, id) \/ (pc[t] = "resize_io" /\ arg[t] = id /\ pc'[t] # pc[t]))
            => sessions' = sessions]_vars

\* resize has just returned success on an id whose session was killed
C19_Witness ==
    /\ ret.op = "resize_pty"
    /\ ret.tag = "ok"
    /\ ret.id \in SessionIds
    /\ sessions[ret.id].pid = 0
    /\ \E p \in ProcsOf(ret.id) : proc[p].killed

\* what the fallback of get_scrollback yields for a row of the store
SnapshotOf(row) ==
    IF row.status # "absent" /\ row.hasScrollback THEN row.scrollback ELSE <<>>

\* C20: get_scrollback on a registered id returns that entry's in-memory
\* scrollback at once, Running or Stopped and whatever row the store holds;
\* on an id that is not registered it goes to the store and returns the row's
\* snapshot, or the empty sequence when there is no row or no snapshot.
C20_ScrollbackFromMemoryElseStore ==
    [][\A t \in Threads, id \in SessionIds :
        /\ (sessions[id].pid # 0 /\ CallsGetScrollback(t, id))
            => /\ ReturnsGetScrollback(t, id)
               /\ ret'.tag = "bytes"
               /\ ret'.data = sessions[id].scrollback
               /\ pc'[t] = "idle"
        /\ (sessions[id].pid = 0 /\ CallsGetScrollback(t, id))
            => pc'[t] = "scrollback_db" /\ ret' = NoReturn
        /\ (pc[t] = "scrollback_db" /\ arg[t] = id /\ pc'[t] # pc[t])
            => /\ ReturnsGetScrollback(t, id)
               /\ ret'.tag = "bytes"
               /\ ret'.data = SnapshotOf(db[id])
               /\ UNCHANGED <<sessions, db>>]_vars

\* get_scrollback has just returned the output held in memory for an agent
\* session whose row is in the store
C20_Witness ==
    /\ ret.op = "get_scrollback"
    /\ ret.id \in AgentIds
    /\ sessions[ret.id].pid # 0
    /\ db[ret.id].status = "running"
    /\ Len(ret.data) > 0
    /\ ret.data = sessions[ret.id].scrollback

\* the pump of child p sees the stream end and finishes in the step
StreamEndStep(p) == proc[p].pump = "read" /\ proc'[p].pump = "done"

\* C21: a kill does not stop the pump of the child it signals (the step that
\* signals leaves the pump where it was), and when the pump of a killed child
\* later sees the stream end it finishes without setting any status and without
\* emitting session-exited.
C21_KilledPumpEndsSilently ==
    [][\A p \in Pids :
        /\ (~proc[p].killed /\ proc'[p].killed) => proc'[p].pump = proc[p].pump
        /\ (proc[p].killed /\ StreamEndStep(p)) => UNCHANGED <<sessions, notified>>]_vars

\* data is a whole number of chunks, each one read by a pump started under id
WholeChunks(data, id) ==
    /\ Len(data) % 2 = 0
    /\ \A k \in 1..(Len(data) \div 2) :
        /\ data[2 * k - 1] \in ProcsOf(id)
        /\ data[2 * k] \in 1..proc[data[2 * k - 1]].nread

C23_RelayBoundOnceToLoopback ==
    /\ [](\A p \in Ports :
            server_addr(p).ip = <<127, 0, 0, 1>> /\ server_addr(p).port = p)
    /\ [](listener.state = "bound"
            => listener.addr = [ip |-> <<127, 0, 0, 1>>, port |-> 9731])
    /\ [][listener.state # "unbound" => listener' = listener]_vars
    /\ [](\A c \in Clients : cpc[c] = "connected" => listener.state = "bound")

\* the relay is bound and a client that connected to it has been sent a frame
C23_Witness ==
    /\ listener.state = "bound"
    /\ \E c \in Clients : cpc[c] = "connected" /\ Len(recvd[c]) > 0

\* C24: when a pump sees the stream end, then if an entry is registered under
\* its session id at that step, that entry's status becomes Stopped (nothing
\* else in the registry changes) and one session-exited is emitted; and if no
\* entry is registered under the id, the registry and the notifications are
\* left as they were. Either way the pump finishes.
C24_StreamEndNotifiesIffRegistered ==
    [][\A p \in Pids :
        StreamEndStep(p)
            => LET id == proc[p].sid IN
               /\ IF sessions[id].pid # 0
                  THEN /\ sessions' = [sessions EXCEPT ![id].status = "Stopped"]
                       /\ \E q \in ProcsOf(id) : notified' = [notified EXCEPT ![q] = @ + 1]
                  ELSE UNCHANGED <<sessions, notified>>
               /\ proc' = [proc EXCEPT ![p].pump = "done"]]_vars

\* two pumps have finished: one found its entry and a notification was
\* emitted, the other, of a killed session, found none and emitted nothing
C24_Witness ==
    \E p, q \in Pids :
        /\ proc[p].pump = "done" /\ notified[p] = 1
        /\ sessions[proc[p].sid].status = "Stopped"
        /\ proc[q].pump = "done" /\ proc[q].killed /\ notified[q] = 0
        /\ sessions[proc[q].sid].pid = 0

\* C25: an entry leaves the registry (its id becomes unregistered, or the entry
\* registered under its id becomes another one) only in a step in which a
\* thread calls kill on that id.
C25_OnlyKillRemoves ==
    [][\A id \in SessionIds :
        (sessions[id].pid # 0 /\ sessions'[id].pid # sessions[id].pid)
            => \E t \in Threads : CallsKill(t, id)]_vars

\* C26: a client is handed frames only one at a time, each the TerminalOutput
\* frame of the very message its receiver moves past in that step, with that
\* message's session id and bytes; and a connected client whose receiver never
\* lagged holds one frame for every message its receiver is past, whatever
\* session the message is of.
C26_EveryChunkOneFrameNoFilter ==
    /\ [][\A c \in Clients :
            recvd'[c] # recvd[c]
                => /\ cursor'[c] = cursor[c] + 1
                   /\ recvd'[c] = Append(recvd[c],
                        [type |-> "TerminalOutput",
                         session_id |-> hub[cursor[c] + 1].session_id,
                         data |-> hub[cursor[c] + 1].data])]_vars
    /\ [](\A c \in Clients :
            (cpc[c] = "connected" /\ ~lagged[c])
                => Len(recvd[c]) = cursor[c] - subAt[c])

\* two connected clients have each been sent frames of two different sessions
C26_Witness ==
    \A c \in Clients :
        /\ cpc[c] = "connected"
        /\ \E i, j \in 1..Len(recvd[c]) : recvd[c][i].session_id # recvd[c][j].session_id

\* ids of the rows the agent_configs table holds
PresentConfigs == {j \in ConfigIds : configs[j].present}

\* C27: a delete_agent_config that targets the built-in default config, or the
\* only config the table holds, leaves the table unchanged.
C27_DeleteKeepsLastAndBuiltin ==
    [][\A k \in ConfigIds :
        (ret'.op = "delete_agent_config" /\ ret'.id = k
            /\ (k = BuiltinId \/ PresentConfigs = {k}))
            => configs' = configs]_vars

\* C28: the scrollback of a registered session is a prefix of the chunks the
\* pump of its child has published so far, and is at most one chunk short of
\* them, the one chunk that pump is appending.
C28_ScrollbackTrailsPublishedByOne ==
    \A id \in SessionIds :
        LET p == sessions[id].pid
            published == ChunksUpTo(p, proc[p].nread)
            held == sessions[id].scrollback
        IN  p # 0
            => /\ Len(held) <= Len(published)
               /\ held = SubSeq(published, 1, Len(held))
               /\ Len(published) - Len(held)
                    <= (IF proc[p].pump = "append" THEN Len(Chunk(p, proc[p].nread)) ELSE 0)

\* the pump of child p takes a step
PumpStep(p) == proc'[p].pump # proc[p].pump \/ proc'[p].nread # proc[p].nread

\* C29: a step of the pump of a killed child changes no entry that belongs to
\* another child (its scrollback and status stay as they were) and emits no
\* session-exited for it.
C29_KilledPumpLeavesLaterSession ==
    [][\A p \in Pids, id \in SessionIds :
        (proc[p].killed /\ PumpStep(p) /\ sessions[id].pid # 0 /\ sessions[id].pid # p)
            => /\ sessions'[id] = sessions[id]
               /\ notified'[sessions[id].pid] = notified[sessions[id].pid]]_vars

\* C30: a registered session whose status is Running has a pump that has not
\* terminated.
C30_RunningHasLivePump ==
    \A id \in SessionIds :
        (sessions[id].pid # 0 /\ sessions[id].status = "Running")
            => proc[sessions[id].pid].pump # "done"

\* C31: every call under way is eventually back from its command, and every
\* chunk the pump has read and is about to append is eventually appended: no
\* one waits for the lock, or holds it, for ever.
C31_EveryCallAndAppendCompletes ==
    /\ \A t \in Threads : (pc[t] # "idle") ~> (pc[t] = "idle")
    /\ \A p \in Pids : (proc[p].pump = "append") ~> (proc[p].pump # "append")

\* the bytes data hold chunk n of child p, at a chunk boundary
HoldsChunk(data, p, n) ==
    \E j \in 1..(Len(data) \div 2) : data[2 * j - 1] = p /\ data[2 * j] = n

\* chunk n of child p was accepted by the channel after client c subscribed
PublishedSince(c, id, p, n) ==
    \E i \in (subAt[c] + 1)..Len(hub) : hub[i] = Message(id, Chunk(p, n))

\* C32: when get_scrollback(id) returns to an observer whose client has
\* subscribed before and has not lagged, every chunk the pumps of id have read
\* is in the bytes returned or was published after the subscription.
C32_SubscribeThenScrollbackMissesNothing ==
    [][\A c \in Clients, id \in SessionIds :
        (/\ cpc[c] = "connected" /\ ~lagged[c]
         /\ ret'.op = "get_scrollback" /\ ret'.id = id)
            => \A p \in ProcsOf(id) : \A n \in 1..proc[p].nread :
                  \/ HoldsChunk(ret'.data, p, n)
                  \/ PublishedSince(c, id, p, n)]_vars

\* the last child spawned under id has been killed, the kill has returned and
\* no call on id is under way: id has not been spawned again
KilledForGood(id) ==
    /\ ProcsOf(id) # {}
    /\ \E p \in ProcsOf(id) : proc[p].killed /\ \A q \in ProcsOf(id) : q <= p
    /\ \A t \in Threads : arg[t] # id

\* C33: once kill(id) has returned, and until id is spawned again, the channel
\* accepts no further message tagged with id.
C33_NoPublishAfterKill ==
    [][\A id \in SessionIds :
        KilledForGood(id)
            => ~(Len(hub') > Len(hub) /\ hub'[Len(hub')].session_id = id)]_vars

\* positions of the input of child p that hold byte k of a call of thread t
BytesAt(p, t, k) == {i \in 1..Len(proc[p].input) : proc[p].input[i] = Data(t)[k]}

\* C34: in the bytes written to a session's pseudo-terminal, the bytes of one
\* write call are next to each other: a call's first byte is followed by its
\* second (or is the last byte written, the call being under way or having
\* failed on the child's exit), and a call's second byte follows its first.
C34_WritesNotInterleaved ==
    \A p \in Pids, t \in Threads :
        /\ \A i \in BytesAt(p, t, 1) :
              \/ i + 1 \in BytesAt(p, t, 2)
              \/ /\ i = Len(proc[p].input)
                 /\ (pc[t] = "write_rest" /\ tp[t] = p) \/ proc[p].state = "exited"
        /\ \A i \in BytesAt(p, t, 2) : i - 1 \in BytesAt(p, t, 1)

\* both threads have written to the same session, one call after the other
C34_Witness ==
    \E p \in Pids :
        /\ BytesAt(p, "t1", 2) # {}
        /\ BytesAt(p, "t2", 2) # {}

====
